---- MODULE Spec2Model ----
(***************************************************************************)
(* Model of the repository-snapshot builder of repo-explainer              *)
(* (src/utils.py): parse_github_url, fetch_repo_content, get_file_content, *)
(* build_directory_tree and retrieve_github_repo_info.                     *)
(*                                                                         *)
(* Text is modelled character by character: a Python str is a sequence of  *)
(* one-character strings, so len(), slicing, split() and endswith() are    *)
(* computed as Python computes them.                                       *)
(***************************************************************************)
EXTENDS Integers, Sequences, FiniteSets, TLC

VARIABLES
    url_path,          \* urlparse(url).path of the URL under parse (the input)
    parsed,            \* outcome of parse_github_url, or NotCalled
    repo,              \* the hosting side: the static tree of the repository
    max_files,         \* budget arguments of retrieve_github_repo_info
    max_file_chars,
    total_chars_cap,
    pc,                \* position of the caller (snapshot build or walker harness)
    formatted_string,  \* the snapshot text built so far
    files_added,       \* local counter of retrieve_github_repo_info
    cursor,            \* position of the for loop over file_paths (1-based)
    stack,             \* activation records of build_directory_tree, innermost last
    file_paths,        \* the accumulator list threaded through the recursion
    walk,              \* "idle", "running", "returned" or "raised"
    walk_result,       \* (tree_str, file_paths) returned by the outermost call
    returns,           \* results of the walker calls completed by the harness
    rendered,          \* history: paths of the entries rendered into a tree string
    fetched,           \* history: directory paths the walker asked the fetcher for
    last_fetch,        \* history: status and outcome of the latest fetch_repo_content
    readme,            \* history: what the README step saw
    base_len,          \* history: len(formatted_string) right after line 94
    attempts           \* history: one record per file-phase fetch, in order

vars == <<url_path, parsed, repo, max_files, max_file_chars, total_chars_cap, pc,
          formatted_string, files_added, cursor, stack, file_paths, walk,
          walk_result, returns, rendered, fetched, last_fetch, readme, base_len,
          attempts>>

-----------------------------------------------------------------------------
(* Bounds of the model *)

MaxPieces == 5       \* URL paths are built from at most this many pieces
MaxItems == 2        \* entries per directory listing of a generated tree
MaxDepth == 1        \* directories may appear at depths below this
MaxCalls == 2        \* walker calls made by one process
MaxFiles == 2        \* max_files ranges over 0..MaxFiles
MaxFileChars == 2    \* max_file_chars ranges over 0..MaxFileChars
MaxBody == 2         \* decoded bodies have 0..MaxBody characters
MaxCap == 150        \* total_chars_cap ranges over 0..MaxCap

-----------------------------------------------------------------------------
(* String literals of src/utils.py *)

\* The backquote character, written by its code point.
BACKTICK == "U+0060"

README_OPEN == <<"R", "E", "A", "D", "M", "E", ".", "m", "d", ":", "\n", BACKTICK, BACKTICK, BACKTICK, "\n">>
README_CLOSE == <<"\n", BACKTICK, BACKTICK, BACKTICK, "\n", "\n">>
README_MISSING == <<"R", "E", "A", "D", "M", "E", ".", "m", "d", ":", " ", "N", "o", "t", " ", "f", "o", "u", "n", "d", " ", "o", "r", " ", "e", "r", "r", "o", "r", " ", "f", "e", "t", "c", "h", "i", "n", "g", " ", "R", "E", "A", "D", "M", "E", "\n", "\n">>
TRUNCATED == <<"\n", ".", ".", ".", " ", "[", "t", "r", "u", "n", "c", "a", "t", "e", "d", "]", "\n">>
TREE_HEADER == <<"D", "i", "r", "e", "c", "t", "o", "r", "y", " ", "S", "t", "r", "u", "c", "t", "u", "r", "e", ":", "\n">>
FENCE == <<BACKTICK, BACKTICK, BACKTICK, "\n">>
INDENT == <<" ", " ", " ", " ">>
DOT_GIT == <<".", "g", "i", "t">>
DOT_GITHUB == <<".", "g", "i", "t", "h", "u", "b">>
NL == <<"\n">>
SLASH == "/"

TEXT_EXTENSIONS ==
    << <<".", "p", "y">>, <<".", "h", "t", "m", "l">>, <<".", "c", "s", "s">>,
       <<".", "j", "s">>, <<".", "j", "s", "x">>, <<".", "r", "s", "t">>,
       <<".", "m", "d">> >>

GitSuffixLen == 4

-----------------------------------------------------------------------------
(* Python str operations *)

Min(a, b) == IF a <= b THEN a ELSE b
Max(a, b) == IF a >= b THEN a ELSE b

\* s[:n], for any integer n
SlicePrefix(s, n) ==
    IF n >= 0 THEN SubSeq(s, 1, Min(n, Len(s)))
    ELSE SubSeq(s, 1, Max(Len(s) + n, 0))

\* s.endswith(suffix)
EndsWith(s, suffix) ==
    /\ Len(suffix) <= Len(s)
    /\ SubSeq(s, Len(s) - Len(suffix) + 1, Len(s)) = suffix

\* s.endswith(tuple of suffixes)
EndsWithAny(s, suffixes) == \E k \in 1..Len(suffixes) : EndsWith(s, suffixes[k])

\* s.strip(c)
RECURSIVE LStrip(_, _)
LStrip(s, c) == IF s # <<>> /\ Head(s) = c THEN LStrip(Tail(s), c) ELSE s

RECURSIVE RStrip(_, _)
RStrip(s, c) ==
    IF s # <<>> /\ s[Len(s)] = c THEN RStrip(SubSeq(s, 1, Len(s) - 1), c) ELSE s

Strip(s, c) == RStrip(LStrip(s, c), c)

\* s.split(c): the pieces between the separators, empty pieces kept, so that
\* "".split("/") is [""].
RECURSIVE SplitFrom(_, _, _)
SplitFrom(s, c, piece) ==
    IF s = <<>> THEN <<piece>>
    ELSE IF Head(s) = c THEN <<piece>> \o SplitFrom(Tail(s), c, <<>>)
    ELSE SplitFrom(Tail(s), c, Append(piece, Head(s)))

Split(s, c) == SplitFrom(s, c, <<>>)

\* x in list
Contains(list, x) == \E k \in 1..Len(list) : list[k] = x

\* the indent unit repeated indent times
RECURSIVE Spaces(_)
Spaces(indent) == IF indent <= 0 THEN <<>> ELSE INDENT \o Spaces(indent - 1)

-----------------------------------------------------------------------------
(* Python values and call outcomes *)

None == [py |-> "None"]
Return(v) == [kind |-> "return", value |-> v]
Raise(e) == [kind |-> "raise", error |-> e]
NotCalled == [kind |-> "none"]

-----------------------------------------------------------------------------
(* parse_github_url, lines 5-18; the argument is urlparse(url).path *)

parse_github_url(path) ==
    LET path_segments == Split(Strip(path, SLASH), SLASH)
    IN  IF Len(path_segments) >= 2
        THEN LET owner == path_segments[1]
                 repo_seg == path_segments[2]
             IN  Return([owner |-> owner,
                         repo |-> IF EndsWith(repo_seg, DOT_GIT)
                                  THEN SlicePrefix(repo_seg, 0 - GitSuffixLen)
                                  ELSE repo_seg])
        ELSE Raise("ValueError")

-----------------------------------------------------------------------------
(* fetch_repo_content, lines 20-32 *)

\* The HTTP statuses the hosting API answers with in the model: success, a
\* non-200 status that is no error status, a client error, a server error.
StatusCodes == {200, 204, 404, 500}

\* requests.Response.raise_for_status(): raises HTTPError for 4xx and 5xx and
\* returns None for every other status.
raise_for_status(status_code) ==
    IF status_code >= 400 /\ status_code < 600
    THEN Raise("HTTPError")
    ELSE Return(None)

\* response is what requests.get returned: [status_code, json]
fetch_repo_content(response) ==
    IF response.status_code = 200
    THEN Return(response.json)
    ELSE raise_for_status(response.status_code)

-----------------------------------------------------------------------------
(* get_file_content, lines 34-41 *)

\* base64.b64decode(content).decode('utf-8'): the content either decodes to
\* a text or is rejected (binascii.Error, UnicodeDecodeError).
b64decode_utf8(content) ==
    IF content.decoded.kind = "return" THEN Return(content.decoded.value)
    ELSE Raise("DecodeError")

\* Subscripting None, or a list with a str key, raises TypeError.
get_file_content(file_info) ==
    IF file_info.py # "dict" THEN Raise("TypeError")
    ELSE IF file_info.encoding = "base64" THEN b64decode_utf8(file_info.content)
    ELSE Return(file_info.content.chars)

-----------------------------------------------------------------------------
(* The hosting side: a static repository tree and the JSON it is listed as *)

NAME_A_PY == <<"a", ".", "p", "y">>
NAME_B_MD == <<"b", ".", "m", "d">>
NAME_CI_PY == <<"c", "i", ".", "p", "y">>
NAME_N_TXT == <<"n", ".", "t", "x", "t">>
NAME_D == <<"d">>

File(name) == [name |-> name, type |-> "file", children |-> <<>>]
Dir(name, children) == [name |-> name, type |-> "dir", children |-> children]
GithubDir == Dir(DOT_GITHUB, <<File(NAME_CI_PY)>>)

DistinctNames(listing) ==
    \A j, k \in 1..Len(listing) : listing[j].name = listing[k].name => j = k

\* Every listing of at most MaxItems entries with distinct names, drawn from
\* a text file, a .github directory and, above MaxDepth, a directory d with
\* any such listing below it.
RECURSIVE Trees(_)
Trees(depth) ==
    LET nodes == {File(NAME_A_PY), GithubDir}
                 \cup (IF depth < MaxDepth
                       THEN {Dir(NAME_D, sub) : sub \in Trees(depth + 1)}
                       ELSE {})
    IN  UNION {{listing \in [1..n -> nodes] : DistinctNames(listing)} : n \in 0..MaxItems}

\* Three fixed repositories for the snapshot build.
SampleRepos ==
    { << File(NAME_A_PY), GithubDir, Dir(NAME_D, <<File(NAME_N_TXT), File(NAME_B_MD)>>) >>,
      << Dir(NAME_D, <<GithubDir>>), File(NAME_B_MD) >>,
      << File(NAME_A_PY), File(NAME_B_MD), Dir(NAME_D, <<File(NAME_A_PY)>>) >> }

\* The entries of the directory reached from `nodes` by the path segments.
RECURSIVE ChildrenAt(_, _)
ChildrenAt(nodes, segments) ==
    IF segments = <<>> THEN nodes
    ELSE LET hit == {k \in 1..Len(nodes) : nodes[k].name = Head(segments)}
         IN  IF hit = {} THEN <<>>
             ELSE ChildrenAt(nodes[CHOOSE k \in hit : TRUE].children, Tail(segments))

\* The JSON array the contents API answers for a directory path: one object
\* per entry, with its name, its repo-relative path and its type.
DirectoryJson(path) ==
    LET nodes == IF path = <<>> THEN repo ELSE ChildrenAt(repo, Split(path, SLASH))
    IN  [py |-> "list",
         items |-> [k \in 1..Len(nodes) |->
                      [name |-> nodes[k].name,
                       path |-> IF path = <<>> THEN nodes[k].name
                                ELSE path \o <<SLASH>> \o nodes[k].name,
                       type |-> nodes[k].type]]]

\* The decoded text of a file of n characters.
BodyChars == <<"0", "1", "2", "3", "4", "5", "6", "7", "8", "9">>
Body(n) == SubSeq(BodyChars, 1, n)

\* The content field of a file object: its characters, and what decoding
\* them as base64 and then as UTF-8 yields (a text, or a rejection).
Payload(chars, decoded) == [chars |-> chars, decoded |-> decoded]

\* The JSON objects the contents API may answer for a file path: base64
\* content that decodes to a body, base64 content that does not decode, and
\* content that is not encoded.  The characters of encoded content are
\* never read as text, so they are not spelled out.
FileJsons ==
    {[py |-> "dict", encoding |-> "base64",
      content |-> Payload(<<"=">>, [kind |-> "return", value |-> Body(n)])]
        : n \in 0..MaxBody}
    \cup {[py |-> "dict", encoding |-> "base64",
           content |-> Payload(<<"=">>, [kind |-> "raise", value |-> <<>>])]}
    \cup {[py |-> "dict", encoding |-> "none",
           content |-> Payload(Body(MaxBody), [kind |-> "raise", value |-> <<>>])]}

-----------------------------------------------------------------------------
(* build_directory_tree, lines 43-68 *)

\* line 57
StartsWithGithub(path) == SlicePrefix(path, Len(DOT_GITHUB)) = DOT_GITHUB
IsGithubMeta(path) == Contains(Split(path, SLASH), DOT_GITHUB)

\* lines 50-51: the list a call starts with; `leftover` is whatever list
\* object an earlier call left behind, which the code never reuses.
SharedDefaultAccumulator(arg, leftover) == IF arg.py = "None" THEN leftover ELSE arg.list
InitialAccumulator(arg, leftover) == IF arg.py = "None" THEN <<>> ELSE arg.list

\* lines 60 and 64
DirLine(indent, name) == Spaces(indent) \o <<"[">> \o name \o <<"/", "]">> \o NL
FileLine(indent, name) == Spaces(indent) \o name \o NL

\* line 66
IsCandidate(name) == EndsWithAny(name, TEXT_EXTENSIONS)

Frame(path, indent) ==
    [path |-> path, indent |-> indent, at |-> "call", items |-> <<>>, idx |-> 1,
     tree_str |-> <<>>]

Top == stack[Len(stack)]
ReplaceTop(frame) == [stack EXCEPT ![Len(stack)] = frame]

\* lines 53-54: the activation on top of the stack fetches its listing.  A
\* raised error, or iterating the None that fetch_repo_content returned,
\* unwinds every activation (line 61 catches nothing).
WalkFetch ==
    /\ walk = "running"
    /\ Top.at = "call"
    /\ \E status \in StatusCodes :
         LET response == [status_code |-> status, json |-> DirectoryJson(Top.path)]
             items == fetch_repo_content(response)
         IN  /\ fetched' = Append(fetched, [path |-> Top.path, status |-> status])
             /\ last_fetch' = [status |-> status, kind |-> items.kind]
             /\ IF items.kind = "return" /\ items.value.py = "list"
                THEN /\ stack' = ReplaceTop([Top EXCEPT !.at = "loop",
                                                       !.items = items.value.items])
                     /\ walk' = walk
                ELSE /\ stack' = <<>>
                     /\ walk' = "raised"
    /\ UNCHANGED <<url_path, parsed, repo, max_files, max_file_chars, total_chars_cap,
                   pc, formatted_string, files_added, cursor, file_paths, walk_result,
                   returns, rendered, readme, base_len, attempts>>

\* lines 55-67: one iteration of the loop over items
WalkItem ==
    /\ walk = "running"
    /\ Top.at = "loop"
    /\ Top.idx <= Len(Top.items)
    /\ LET item == Top.items[Top.idx]
           next == [Top EXCEPT !.idx = Top.idx + 1]
       IN  IF IsGithubMeta(item.path)
           THEN /\ stack' = ReplaceTop(next)
                /\ UNCHANGED <<file_paths, rendered>>
           ELSE IF item.type = "dir"
           THEN /\ stack' = Append(
                      ReplaceTop([next EXCEPT !.tree_str =
                                     Top.tree_str \o DirLine(Top.indent, item.name)]),
                      Frame(item.path, Top.indent + 1))
                /\ rendered' = rendered \cup {item.path}
                /\ UNCHANGED file_paths
           ELSE /\ stack' = ReplaceTop([next EXCEPT !.tree_str =
                                     Top.tree_str \o FileLine(Top.indent, item.name)])
                /\ rendered' = rendered \cup {item.path}
                /\ file_paths' = IF IsCandidate(item.name)
                                 THEN Append(file_paths, <<Top.indent, item.path>>)
                                 ELSE file_paths
    /\ UNCHANGED <<url_path, parsed, repo, max_files, max_file_chars, total_chars_cap,
                   pc, formatted_string, files_added, cursor, walk, walk_result,
                   returns, fetched, last_fetch, readme, base_len, attempts>>

\* line 68, and lines 61-62 in the caller: the innermost activation returns
WalkReturn ==
    /\ walk = "running"
    /\ Top.at = "loop"
    /\ Top.idx > Len(Top.items)
    /\ IF Len(stack) = 1
       THEN /\ walk' = "returned"
            /\ walk_result' = [tree_str |-> Top.tree_str, file_paths |-> file_paths]
            /\ stack' = <<>>
       ELSE LET caller == stack[Len(stack) - 1]
                below == SubSeq(stack, 1, Len(stack) - 2)
            IN  /\ stack' = Append(below, [caller EXCEPT !.tree_str =
                                              caller.tree_str \o Top.tree_str])
                /\ UNCHANGED <<walk, walk_result>>
    /\ UNCHANGED <<url_path, parsed, repo, max_files, max_file_chars, total_chars_cap,
                   pc, formatted_string, files_added, cursor, file_paths, returns,
                   rendered, fetched, last_fetch, readme, base_len, attempts>>

-----------------------------------------------------------------------------
(* A process that calls build_directory_tree several times on one repository *)

\* build_directory_tree(owner, repo), or build_directory_tree(..., file_paths=[])
CallWalker ==
    /\ pc = "process"
    /\ walk = "idle"
    /\ Len(returns) < MaxCalls
    /\ \E arg \in {None, [py |-> "list", list |-> <<>>]} :
         file_paths' = InitialAccumulator(arg, file_paths)
    /\ stack' = <<Frame(<<>>, 0)>>
    /\ walk' = "running"
    /\ rendered' = {}
    /\ fetched' = <<>>
    /\ UNCHANGED <<url_path, parsed, repo, max_files, max_file_chars, total_chars_cap,
                   pc, formatted_string, files_added, cursor, walk_result, returns,
                   last_fetch, readme, base_len, attempts>>

\* The process takes the result, or the exception, of the call.
CollectWalk ==
    /\ pc = "process"
    /\ walk \in {"returned", "raised"}
    /\ returns' = Append(returns, IF walk = "returned" THEN Return(walk_result)
                                  ELSE Raise("Exception"))
    /\ walk' = "idle"
    /\ UNCHANGED <<url_path, parsed, repo, max_files, max_file_chars, total_chars_cap,
                   pc, formatted_string, files_added, cursor, stack, file_paths,
                   walk_result, rendered, fetched, last_fetch, readme, base_len,
                   attempts>>

NoWalkResult == [tree_str |-> <<>>, file_paths |-> <<>>]
NoFetch == [status |-> 0, kind |-> "none"]
NoReadme == [seen |-> FALSE, ok |-> FALSE, body |-> <<>>]

InitWalk ==
    /\ repo \in Trees(0)
    /\ pc = "process"
    /\ url_path = <<>>
    /\ parsed = NotCalled
    /\ max_files = 0
    /\ max_file_chars = 0
    /\ total_chars_cap = 0
    /\ formatted_string = <<>>
    /\ files_added = 0
    /\ cursor = 1
    /\ stack = <<>>
    /\ file_paths = <<>>
    /\ walk = "idle"
    /\ walk_result = NoWalkResult
    /\ returns = <<>>
    /\ rendered = {}
    /\ fetched = <<>>
    /\ last_fetch = NoFetch
    /\ readme = NoReadme
    /\ base_len = 0
    /\ attempts = <<>>

NextWalk == CallWalker \/ WalkFetch \/ WalkItem \/ WalkReturn \/ CollectWalk

SpecWalk == InitWalk /\ [][NextWalk]_vars

-----------------------------------------------------------------------------
(* retrieve_github_repo_info, lines 70-119 *)

\* What requests.get may return for a file path: 200 with a file object, or
\* any other status (whose body is never read).
FileResponses ==
    {[status_code |-> 200, json |-> j] : j \in FileJsons}
    \cup {[status_code |-> s, json |-> None] : s \in StatusCodes \ {200}}

\* lines 84-85 and 101-102: fetch, then decode; an exception of either call
\* leaves the try block.
FetchAndDecode(response) ==
    LET file_info == fetch_repo_content(response)
    IN  IF file_info.kind = "raise" THEN file_info ELSE get_file_content(file_info.value)

\* lines 86-87 and 103-104
TruncateAtOrAbove(content, limit) ==
    IF Len(content) >= limit THEN SlicePrefix(content, limit) \o TRUNCATED ELSE content
Truncate(content, limit) ==
    IF Len(content) > limit THEN SlicePrefix(content, limit) \o TRUNCATED ELSE content

\* line 88
ReadmeBlock(readme_content) == README_OPEN \o readme_content \o README_CLOSE

\* lines 89-90: the except clause of the README step
ReadmeErrorAborts == [text |-> README_MISSING, next |-> "failed"]
ReadmeOnError == [text |-> README_MISSING, next |-> "tree"]

\* line 105
Snippet(indent, path, file_content) ==
    NL \o Spaces(indent) \o path \o <<":", "\n">> \o Spaces(indent) \o FENCE
       \o file_content \o NL \o Spaces(indent) \o FENCE

\* lines 108-110: the snippet as appended when it does not fit
Unclipped(text, snippet, cap) == snippet
ClipSnippet(text, snippet, cap) ==
    LET remaining == Max(cap - Len(text), 0)
    IN  IF remaining > 0 THEN SlicePrefix(snippet, remaining) ELSE snippet

\* line 98
StopsAboveMaxFiles(added, limit, length, cap) == added > limit \/ length >= cap
StopsAboveCap(added, limit, length, cap) == added >= limit \/ length > cap
LoopStops(added, limit, length, cap) == added >= limit \/ length >= cap

\* lines 115-117: the except clause of the file loop
SkippedFileCounts(text, added) ==
    [formatted_string |-> text, files_added |-> added + 1, control |-> "continue",
     what |-> "skipped", body |-> <<>>]
SkippedFile(text, added) ==
    [formatted_string |-> text, files_added |-> added, control |-> "continue",
     what |-> "skipped", body |-> <<>>]

\* lines 100-117: the body of the loop for one candidate and one response
FileIteration(text, added, indent, path, response, limit, cap) ==
    LET content == FetchAndDecode(response)
    IN  IF content.kind = "raise" THEN SkippedFile(text, added)
        ELSE LET file_content == Truncate(content.value, limit)
                 snippet == Snippet(indent, path, file_content)
             IN  IF Len(text) + Len(snippet) > cap
                 THEN [formatted_string |-> text \o ClipSnippet(text, snippet, cap),
                       files_added |-> added, control |-> "break",
                       what |-> "clipped", body |-> content.value]
                 ELSE [formatted_string |-> text \o snippet,
                       files_added |-> added + 1, control |-> "continue",
                       what |-> "embedded", body |-> content.value]

\* line 81
BuildParse ==
    /\ pc = "start"
    /\ parsed' = parse_github_url(url_path)
    /\ pc' = IF parsed'.kind = "raise" THEN "failed" ELSE "readme"
    /\ UNCHANGED <<url_path, repo, max_files, max_file_chars, total_chars_cap,
                   formatted_string, files_added, cursor, stack, file_paths, walk,
                   walk_result, returns, rendered, fetched, last_fetch, readme,
                   base_len, attempts>>

\* lines 83-90
BuildReadme ==
    /\ pc = "readme"
    /\ \E response \in FileResponses :
         LET readme_content == FetchAndDecode(response)
         IN  /\ last_fetch' = [status |-> response.status_code,
                               kind |-> fetch_repo_content(response).kind]
             /\ IF readme_content.kind = "return"
                THEN /\ formatted_string' =
                            ReadmeBlock(Truncate(readme_content.value, max_file_chars))
                     /\ readme' = [seen |-> TRUE, ok |-> TRUE, body |-> readme_content.value]
                     /\ pc' = "tree"
                ELSE /\ formatted_string' = ReadmeOnError.text
                     /\ readme' = [seen |-> TRUE, ok |-> FALSE, body |-> <<>>]
                     /\ pc' = ReadmeOnError.next
    /\ UNCHANGED <<url_path, parsed, repo, max_files, max_file_chars, total_chars_cap,
                   files_added, cursor, stack, file_paths, walk, walk_result, returns,
                   rendered, fetched, base_len, attempts>>

\* line 92: the call build_directory_tree(owner, repo, token=token)
BuildCallWalker ==
    /\ pc = "tree"
    /\ walk = "idle"
    /\ file_paths' = InitialAccumulator(None, file_paths)
    /\ stack' = <<Frame(<<>>, 0)>>
    /\ walk' = "running"
    /\ pc' = "walking"
    /\ UNCHANGED <<url_path, parsed, repo, max_files, max_file_chars, total_chars_cap,
                   formatted_string, files_added, cursor, walk_result, returns,
                   rendered, fetched, last_fetch, readme, base_len, attempts>>

\* line 92: an exception of the walk is not caught
BuildAbort ==
    /\ pc = "walking"
    /\ walk = "raised"
    /\ pc' = "failed"
    /\ UNCHANGED <<url_path, parsed, repo, max_files, max_file_chars, total_chars_cap,
                   formatted_string, files_added, cursor, stack, file_paths, walk,
                   walk_result, returns, rendered, fetched, last_fetch, readme,
                   base_len, attempts>>

\* lines 92-96
BuildAppendTree ==
    /\ pc = "walking"
    /\ walk = "returned"
    /\ formatted_string' = formatted_string \o TREE_HEADER \o walk_result.tree_str \o NL
    /\ base_len' = Len(formatted_string')
    /\ files_added' = 0
    /\ cursor' = 1
    /\ pc' = "files"
    /\ UNCHANGED <<url_path, parsed, repo, max_files, max_file_chars, total_chars_cap,
                   stack, file_paths, walk, walk_result, returns, rendered, fetched,
                   last_fetch, readme, attempts>>

\* lines 97-117: one iteration of the loop over file_paths that gets past line 99
BuildFile ==
    /\ pc = "files"
    /\ cursor <= Len(walk_result.file_paths)
    /\ ~LoopStops(files_added, max_files, Len(formatted_string), total_chars_cap)
    /\ \E response \in FileResponses :
         LET indent == walk_result.file_paths[cursor][1]
             path == walk_result.file_paths[cursor][2]
             out == FileIteration(formatted_string, files_added, indent, path, response,
                                  max_file_chars, total_chars_cap)
         IN  /\ formatted_string' = out.formatted_string
             /\ files_added' = out.files_added
             /\ cursor' = cursor + 1
             /\ pc' = IF out.control = "break" THEN "done" ELSE "files"
             /\ last_fetch' = [status |-> response.status_code,
                               kind |-> fetch_repo_content(response).kind]
             /\ attempts' = Append(attempts,
                                   [index |-> cursor, what |-> out.what, body |-> out.body,
                                    ok |-> FetchAndDecode(response).kind = "return",
                                    at |-> Len(formatted_string)])
    /\ UNCHANGED <<url_path, parsed, repo, max_files, max_file_chars, total_chars_cap,
                   stack, file_paths, walk, walk_result, returns, rendered, fetched,
                   readme, base_len>>

\* lines 97-99 and 119: the loop ends, or breaks at line 99, and the text is returned
BuildReturn ==
    /\ pc = "files"
    /\ \/ cursor > Len(walk_result.file_paths)
       \/ LoopStops(files_added, max_files, Len(formatted_string), total_chars_cap)
    /\ pc' = "done"
    /\ UNCHANGED <<url_path, parsed, repo, max_files, max_file_chars, total_chars_cap,
                   formatted_string, files_added, cursor, stack, file_paths, walk,
                   walk_result, returns, rendered, fetched, last_fetch, readme,
                   base_len, attempts>>

\* The URL paths of the build: a clone URL of a repository, and a URL with
\* the owner alone.
BuildUrlPaths ==
    { <<"/", "o", "/", "r", ".", "g", "i", "t">>, <<"/", "o">> }

Init ==
    /\ url_path \in BuildUrlPaths
    /\ repo \in SampleRepos
    /\ max_files \in 0..MaxFiles
    /\ max_file_chars \in 0..MaxFileChars
    /\ total_chars_cap \in 0..MaxCap
    /\ pc = "start"
    /\ parsed = NotCalled
    /\ formatted_string = <<>>
    /\ files_added = 0
    /\ cursor = 1
    /\ stack = <<>>
    /\ file_paths = <<>>
    /\ walk = "idle"
    /\ walk_result = NoWalkResult
    /\ returns = <<>>
    /\ rendered = {}
    /\ fetched = <<>>
    /\ last_fetch = NoFetch
    /\ readme = NoReadme
    /\ base_len = 0
    /\ attempts = <<>>

Next ==
    \/ BuildParse
    \/ BuildReadme
    \/ BuildCallWalker
    \/ WalkFetch
    \/ WalkItem
    \/ WalkReturn
    \/ BuildAbort
    \/ BuildAppendTree
    \/ BuildFile
    \/ BuildReturn

Spec == Init /\ [][Next]_vars

-----------------------------------------------------------------------------
(* A caller of parse_github_url alone *)

Pieces == { <<"/">>, <<"o">>, <<"r">>, DOT_GIT }

RECURSIVE PieceStrings(_)
PieceStrings(n) ==
    IF n = 0 THEN {<<>>}
    ELSE LET shorter == PieceStrings(n - 1)
         IN  shorter \cup {s \o p : s \in shorter, p \in Pieces}

ParseUrl ==
    /\ pc = "parse"
    /\ parsed' = parse_github_url(url_path)
    /\ pc' = "parsed"
    /\ UNCHANGED <<url_path, repo, max_files, max_file_chars, total_chars_cap,
                   formatted_string, files_added, cursor, stack, file_paths, walk,
                   walk_result, returns, rendered, fetched, last_fetch, readme,
                   base_len, attempts>>

InitParse ==
    /\ url_path \in PieceStrings(MaxPieces)
    /\ pc = "parse"
    /\ repo = <<>>
    /\ parsed = NotCalled
    /\ max_files = 0
    /\ max_file_chars = 0
    /\ total_chars_cap = 0
    /\ formatted_string = <<>>
    /\ files_added = 0
    /\ cursor = 1
    /\ stack = <<>>
    /\ file_paths = <<>>
    /\ walk = "idle"
    /\ walk_result = NoWalkResult
    /\ returns = <<>>
    /\ rendered = {}
    /\ fetched = <<>>
    /\ last_fetch = NoFetch
    /\ readme = NoReadme
    /\ base_len = 0
    /\ attempts = <<>>

NextParse == ParseUrl

SpecParse == InitParse /\ [][NextParse]_vars

-----------------------------------------------------------------------------
(* Properties *)

Candidates == walk_result.file_paths
Attempted == 1..Len(attempts)
EmbeddedAttempts == {k \in Attempted : attempts[k].what = "embedded"}
ClippedAttempts == {k \in Attempted : attempts[k].what = "clipped"}
SkippedAttempts == {k \in Attempted : attempts[k].what = "skipped"}

\* The rule of the specification for one body: the first max_file_chars
\* characters and the marker when longer, the body itself otherwise.
ExpectedContent(body) ==
    IF Len(body) > max_file_chars
    THEN SubSeq(body, 1, max_file_chars) \o TRUNCATED
    ELSE body

\* The block of the candidate tried by attempt k, as the specification formats it.
ExpectedBlock(k) ==
    LET indent == Candidates[attempts[k].index][1]
        path == Candidates[attempts[k].index][2]
    IN  NL \o Spaces(indent) \o path \o <<":", "\n">> \o Spaces(indent) \o FENCE
           \o ExpectedContent(attempts[k].body) \o NL \o Spaces(indent) \o FENCE

\* The text the first k attempts add after the directory section: a whole
\* block, a block cut at the cap, or nothing for a skipped file.
RECURSIVE FileText(_)
FileText(k) ==
    IF k = 0 THEN <<>>
    ELSE LET before == FileText(k - 1)
         IN  before \o
             (IF attempts[k].what = "embedded" THEN ExpectedBlock(k)
              ELSE IF attempts[k].what = "clipped"
              THEN SubSeq(ExpectedBlock(k), 1,
                          total_chars_cap - (base_len + Len(before)))
              ELSE <<>>)

InFilePhase == pc \in {"files", "done"}

\* C1: appending file blocks never raises the snapshot length above
\* max(total_chars_cap, length right after the Directory Structure section).
C1_FileBlocksRespectCap ==
    InFilePhase => Len(formatted_string) <= Max(total_chars_cap, base_len)

C1_Witness ==
    /\ pc = "done"
    /\ ClippedAttempts # {}
    /\ EmbeddedAttempts # {}
    /\ base_len < total_chars_cap
    /\ Len(formatted_string) = total_chars_cap

\* C2: the number of candidate blocks appended, complete or clipped, never
\* exceeds max_files; when every fetch made succeeded and the cap was not
\* reached, exactly the first min(max_files, number of candidates)
\* candidates are embedded, in discovery order, and nothing else follows
\* the directory section.
C2_AtMostMaxFilesInOrder ==
    /\ Cardinality(EmbeddedAttempts \cup ClippedAttempts) <= max_files
    /\ (/\ pc = "done"
        /\ SkippedAttempts = {}
        /\ Len(formatted_string) < total_chars_cap)
       => /\ Len(attempts) = Min(max_files, Len(Candidates))
          /\ \A k \in Attempted : attempts[k].index = k /\ attempts[k].what = "embedded"
          /\ formatted_string =
                SubSeq(formatted_string, 1, base_len) \o FileText(Len(attempts))

C2_Witness ==
    /\ pc = "done"
    /\ max_files >= 1
    /\ max_files < Len(Candidates)
    /\ SkippedAttempts = {}
    /\ Cardinality(EmbeddedAttempts) = max_files
    /\ Len(formatted_string) < total_chars_cap

\* C3: a candidate whose fetch or decode fails does not fail the build, adds
\* nothing to the snapshot and does not count toward max_files, and every
\* candidate whose fetch succeeds is embedded unless max_files or
\* total_chars_cap is hit first.
C3_FailedFileIsSkipped ==
    /\ attempts # <<>> => pc # "failed"
    /\ \A k \in Attempted : attempts[k].ok <=> attempts[k].what # "skipped"
    /\ InFilePhase =>
          /\ files_added = Cardinality(EmbeddedAttempts)
          /\ formatted_string =
                SubSeq(formatted_string, 1, base_len) \o FileText(Len(attempts))
    /\ (/\ pc = "done"
        /\ ClippedAttempts = {}
        /\ Cardinality(EmbeddedAttempts) < max_files
        /\ Len(formatted_string) < total_chars_cap)
       => /\ Len(attempts) = Len(Candidates)
          /\ \A k \in Attempted : attempts[k].index = k

C3_Witness ==
    /\ pc = "done"
    /\ \E j, k \in Attempted :
          /\ j < k
          /\ attempts[j].what = "skipped"
          /\ attempts[k].what = "embedded"

\* A fetch of the directory walk fails when the hosting API answers it with
\* a status other than 200.
ParseFailed == parsed.kind = "raise"
WalkFetchFailed == \E k \in 1..Len(fetched) : fetched[k].status # 200

\* C4: the build fails if and only if URL parsing fails or some fetch of the
\* directory walk fails; a failing README fetch or decode only puts the
\* placeholder line at the head of the snapshot.
C4_FailsOnlyOnParseOrWalk ==
    /\ pc = "failed" => ParseFailed \/ WalkFetchFailed
    /\ ParseFailed => pc = "failed"
    /\ WalkFetchFailed => pc = "failed" \/ (pc = "walking" /\ walk = "raised")
    /\ (readme.seen /\ ~readme.ok) =>
          /\ pc # "readme"
          /\ SlicePrefix(formatted_string, Len(README_MISSING)) = README_MISSING

C4_Witness ==
    /\ pc = "done"
    /\ readme.seen
    /\ ~readme.ok
    /\ last_fetch.kind = "return"
    /\ EmbeddedAttempts # {}

\* C5: fetch_repo_content returns normally for status 200 only, and raises
\* for every other status.
C5_NonSuccessAlwaysRaises ==
    last_fetch.kind # "none" =>
        (last_fetch.status = 200 <=> last_fetch.kind = "return")

\* The path has a segment named .github
HasGithubSegment(path) ==
    \E k \in 1..Len(Split(path, SLASH)) : Split(path, SLASH)[k] = DOT_GITHUB

\* text[k..] starts with word
OccursAt(word, text, k) ==
    /\ k + Len(word) - 1 <= Len(text)
    /\ SubSeq(text, k, k + Len(word) - 1) = word

Occurs(word, text) == \E k \in 1..Len(text) : OccursAt(word, text, k)

\* C6: no entry whose path has a segment named .github is rendered, is
\* collected as a candidate, or has its directory fetched, in any tree.
C6_GithubSkipped ==
    /\ \A path \in rendered : ~HasGithubSegment(path)
    /\ \A k \in 1..Len(file_paths) : ~HasGithubSegment(file_paths[k][2])
    /\ \A k \in 1..Len(fetched) : ~HasGithubSegment(fetched[k].path)
    /\ \A k \in 1..Len(stack) : ~Occurs(DOT_GITHUB, stack[k].tree_str)
    /\ ~Occurs(DOT_GITHUB, walk_result.tree_str)

C6_Witness ==
    /\ walk = "returned"
    /\ walk_result.file_paths # <<>>
    /\ \E k \in 1..Len(repo) : repo[k].name = DOT_GITHUB
    /\ \E k \in 1..Len(repo) :
          /\ repo[k].name = NAME_D
          /\ \E j \in 1..Len(repo[k].children) : repo[k].children[j].name = DOT_GITHUB

\* The first two non-empty segments of the path
NonEmptySegments(path) ==
    LET segments == Split(path, SLASH)
        IsNonEmpty(segment) == segment # <<>>
    IN  SelectSeq(segments, IsNonEmpty)

WithoutDotGit(segment) ==
    IF EndsWith(segment, DOT_GIT)
    THEN SubSeq(segment, 1, Len(segment) - Len(DOT_GIT))
    ELSE segment

\* C7: parse_github_url returns the first two non-empty path segments as
\* (owner, repo), a trailing .git removed from repo, neither of them empty,
\* and fails for every path with fewer than two non-empty segments.
C7_FirstTwoNonEmptySegments ==
    pc = "parsed" =>
        LET segments == NonEmptySegments(url_path)
        IN  IF Len(segments) >= 2
            THEN /\ parsed.kind = "return"
                 /\ parsed.value.owner = segments[1]
                 /\ parsed.value.repo = WithoutDotGit(segments[2])
                 /\ parsed.value.owner # <<>>
                 /\ parsed.value.repo # <<>>
            ELSE parsed.kind = "raise"

Returned == {k \in 1..Len(returns) : returns[k].kind = "return"}

\* C8: every call of build_directory_tree on the same repository, made with
\* no accumulator or a fresh one, returns the same tree string and the same
\* candidate list, and the list of a call holds only entries that call
\* rendered, each once.
C8_WalkerCallsAgree ==
    /\ \A j, k \in Returned : returns[j].value = returns[k].value
    /\ walk = "returned" =>
          /\ \A k \in 1..Len(walk_result.file_paths) :
                walk_result.file_paths[k][2] \in rendered
          /\ \A j, k \in 1..Len(walk_result.file_paths) :
                walk_result.file_paths[j] = walk_result.file_paths[k] => j = k

C8_Witness ==
    /\ Len(returns) >= 2
    /\ returns[1].kind = "return"
    /\ returns[2].kind = "return"
    /\ Len(returns[2].value.file_paths) >= 2

\* C9: an embedded block holds the first max_file_chars characters of a
\* longer body followed by the truncation marker, and a body of at most
\* max_file_chars characters whole and unmarked; so does the README block.
C9_TruncationRule ==
    /\ \A k \in EmbeddedAttempts :
          SubSeq(formatted_string, attempts[k].at + 1,
                 attempts[k].at + Len(ExpectedBlock(k))) = ExpectedBlock(k)
    /\ (readme.seen /\ readme.ok) =>
          LET block == README_OPEN \o ExpectedContent(readme.body) \o README_CLOSE
          IN  SlicePrefix(formatted_string, Len(block)) = block

C9_Witness ==
    /\ pc = "done"
    /\ max_file_chars >= 1
    /\ readme.ok
    /\ Len(readme.body) > max_file_chars
    /\ \E k \in EmbeddedAttempts : Len(attempts[k].body) > max_file_chars
    /\ \E k \in EmbeddedAttempts : Len(attempts[k].body) <= max_file_chars

StopReached ==
    \/ ClippedAttempts # {}
    \/ Cardinality(EmbeddedAttempts) >= max_files
    \/ Len(formatted_string) >= total_chars_cap

\* C10: file fetches are made one per step in discovery order, the k-th
\* fetch being of the k-th candidate (so none is fetched twice), and no
\* fetch is made once a block was clipped, max_files blocks are embedded or
\* the snapshot length has reached total_chars_cap.
C10_FetchOrderAndStop ==
    [][/\ StopReached => attempts' = attempts
       /\ attempts' # attempts =>
             /\ Len(attempts') = Len(attempts) + 1
             /\ SubSeq(attempts', 1, Len(attempts)) = attempts
             /\ attempts'[Len(attempts')].index = Len(attempts')
             /\ Len(attempts') <= Len(Candidates)]_vars

C10_Witness ==
    /\ pc = "done"
    /\ ClippedAttempts # {}
    /\ Len(attempts) >= 2
    /\ Len(attempts) < Len(Candidates)

====
